---- MODULE Spec2Model ----
(***************************************************************************)
(* The light-client Supervisor (light-client/src/supervisor.rs), its fork  *)
(* detector (fork_detector.rs), the per-instance State (state.rs) and the  *)
(* LightStore (store/sled.rs) as one state machine.                        *)
(*                                                                         *)
(* The Supervisor thread is a sequential process whose position is pc; the *)
(* Handles are client processes that send on the Supervisor's queue and    *)
(* block on their reply channel.  Peer I/O, the verification predicates    *)
(* and the clock are the environment: every call into them is resolved by  *)
(* a choice (\E) over the results the call can produce.                    *)
(***************************************************************************)
EXTENDS Integers, Sequences, FiniteSets, TLC

\* Bounds of the model.
MaxHeight == 3
MaxRequests == 2

Heights == 1..MaxHeight
Peers == {"p1", "p2", "p3", "p4"}
Clients == {"h1", "h2"}
Hashes == {"A", "B"}
Statuses == {"Unverified", "Verified", "Trusted", "Failed"}

\* Option::None for a light block.
NoBlock == [height |-> 0, hash |-> "none", provider |-> "none"]

\* A light block: the header (height, hash of the header) and the peer it
\* was fetched from.
Block(h, x, p) == [height |-> h, hash |-> x, provider |-> p]

VARIABLES
    peers,           \* Supervisor.peers: PeerList
    store,           \* store[p]: Instance.state.light_store of peer p
    trace,           \* trace[p]: Instance.state.verification_trace of peer p
    queue,           \* the Supervisor's channel of HandleInput events
    replies,         \* replies[c]: the reply channel of the call client c is in
    results,         \* results[c]: how the last call of client c ended
    waiting,         \* waiting[c]: the request id client c blocks on, 0 when idle
    nextId,          \* number of requests sent so far, plus one
    pc,              \* position of the Supervisor thread
    req,             \* the event being processed
    lc,              \* position of the primary's LightClient::verify_to_target loop
    verdict,         \* Supervisor::verify: verdict
    verified_block,  \* Supervisor::verify: verified_block
    forks,           \* process_forks: the entries not yet processed
    forked,          \* process_forks: forked
    detection,       \* history: the last run of detect_forks in this request
    reports,         \* history: EvidenceReporter.report calls of this request
    started,         \* history: id of the last event the Supervisor took up
    oracle,          \* history: what the witnesses did in the last detect_forks
    scratch,         \* history: the store each witness's verification ran on
    op,              \* the LightStore / State call in progress on a store alone
    accepted,        \* history: the blocks verification made Verified in this request
    account          \* an account::Id, its text form and what from_str made of it

vars == <<peers, store, trace, queue, replies, results, waiting, nextId, pc, req,
          lc, verdict, verified_block, forks, forked, detection, reports, started,
          oracle, scratch, op, accepted, account>>

----------------------------------------------------------------------------
\* Small helpers.

Max(S) == CHOOSE x \in S : \A y \in S : y <= x

Range(s) == {s[i] : i \in 1..Len(s)}

RemoveFrom(s, x) == SelectSeq(s, LAMBDA y : y # x)

----------------------------------------------------------------------------
\* LightStore (store/sled.rs): one map Height -> LightBlock per status.

EmptyStore == [s \in Statuses |-> [h \in Heights |-> NoBlock]]

Get(st, h, s) == st[s][h]

Insert(st, lb, s) == [st EXCEPT ![s][lb.height] = lb]

Remove(st, h, s) == [st EXCEPT ![s][h] = NoBlock]

Update(st, lb, s) ==
    [x \in Statuses |->
        IF x = s THEN [st[x] EXCEPT ![lb.height] = lb]
                 ELSE [st[x] EXCEPT ![lb.height] = NoBlock]]

Latest(st, s) ==
    LET hs == {h \in Heights : st[s][h] # NoBlock}
    IN  IF hs = {} THEN NoBlock ELSE st[s][Max(hs)]

----------------------------------------------------------------------------
\* State (state.rs).

EmptyTrace == [h \in Heights |-> {}]

trace_block(tr, target_height, height) ==
    [tr EXCEPT ![target_height] = @ \cup {height}]

\* The heights of the blocks get_trace returns (highest first in the code;
\* the set of them here).
get_trace(st, tr, target_height) ==
    {h \in tr[target_height] : Get(st, h, "Verified") # NoBlock}

----------------------------------------------------------------------------
\* Instance (supervisor.rs).

latest_trusted(st) == Latest(st, "Trusted")

trust_block(st, lb) == Update(st, lb, "Trusted")

----------------------------------------------------------------------------
\* PeerList: primary, witnesses in insertion order, full nodes, faulty nodes.

\* Move the primary to the faulty set and promote the first witness.  With no
\* witness the call fails NoWitnesses and the list keeps its primary (the
\* Supervisor reads primary() without a check at the start of every verify).
replace_faulty_primary(pl) ==
    IF pl.witnesses = <<>>
    THEN [ok |-> FALSE, peers |-> pl]
    ELSE [ok |-> TRUE,
          peers |-> [pl EXCEPT !.primary = Head(pl.witnesses),
                               !.witnesses = Tail(pl.witnesses),
                               !.faulty_nodes = @ \cup {pl.primary}]]

\* Move the witness to the faulty set; promote a full node, if any, in its place.
replace_faulty_witness(pl, id) ==
    LET rest == RemoveFrom(pl.witnesses, id)
    IN  IF pl.full_nodes = <<>>
        THEN [pl EXCEPT !.witnesses = rest,
                        !.faulty_nodes = @ \cup {id}]
        ELSE [pl EXCEPT !.witnesses = Append(rest, Head(pl.full_nodes)),
                        !.full_nodes = Tail(pl.full_nodes),
                        !.faulty_nodes = @ \cup {id}]

----------------------------------------------------------------------------
\* Results and errors.

Ok(lb) == [tag |-> "Ok", block |-> lb, peers |-> <<>>]

Err(kind) == [tag |-> kind, block |-> NoBlock, peers |-> <<>>]

ForkDetected(ids) == [tag |-> "ForkDetected", block |-> NoBlock, peers |-> ids]

\* The error kinds the LightClient's predicates can fail with.
PredicateErrors == {"InvalidLightBlock", "TrustedStateOutsideTrustingPeriod"}

----------------------------------------------------------------------------
\* Scheduler and LightClient (the primary's verification).

\* The next height to try between the current trust and the height aimed at.
Schedule(current, high) ==
    LET pivot == current + (high - current) \div 2
    IN  IF pivot = current THEN high ELSE pivot

\* The highest Verified or Trusted block at or below the target.
LatestVerifiedOrTrusted(st, target) ==
    LET hs == {h \in 1..target :
                  st["Verified"][h] # NoBlock \/ st["Trusted"][h] # NoBlock}
    IN  IF hs = {} THEN NoBlock
        ELSE IF st["Trusted"][Max(hs)] # NoBlock THEN st["Trusted"][Max(hs)]
        ELSE st["Verified"][Max(hs)]

\* get_or_fetch_block's lookup: the block at h under Verified, Trusted or
\* Unverified, if the store holds one.
Cached(st, h) ==
    IF st["Verified"][h] # NoBlock THEN st["Verified"][h]
    ELSE IF st["Trusted"][h] # NoBlock THEN st["Trusted"][h]
    ELSE st["Unverified"][h]

\* How verify_to_target starts, before its loop.
VerifyEntry(st, target) ==
    LET trusted == Latest(st, "Trusted")
    IN  IF trusted = NoBlock THEN Err("NoTrustedState")
        ELSE IF trusted.height = target THEN Ok(trusted)
        ELSE IF trusted.height > target THEN Err("TargetLowerThanTrustedState")
        ELSE Err("Loop")

----------------------------------------------------------------------------
\* ForkDetector (fork_detector.rs).

\* What one witness does when asked: its fetch of the block at the verified
\* height times out, or it serves a block with the given hash and its
\* verify_to_target on the scratch state ends as given.
WitnessFetch == {"timeout"} \cup Hashes
WitnessVerify == {"ok", "expired", "timeout", "invalid"}
WitnessOracle == [fetch : WitnessFetch, verify : WitnessVerify]

Forked(p, w) == [kind |-> "Forked", primary |-> p, witness |-> w, provider |-> w.provider]
Timeout(id) == [kind |-> "Timeout", primary |-> NoBlock, witness |-> NoBlock, provider |-> id]
Faulty(w) == [kind |-> "Faulty", primary |-> NoBlock, witness |-> w, provider |-> w.provider]

\* The scratch store a witness's verification runs on (lines 97, 110-116).
ScratchStore(trusted, witness_block) ==
    Insert(Insert(EmptyStore, trusted, "Verified"), witness_block, "Unverified")

\* A classification that takes an expired trusted state for a fault of the
\* witness.
ClassifyExpiredFaulty(result, verified, witness_block) ==
    CASE result = "ok" -> Forked(verified, witness_block)
      [] result = "timeout" -> Timeout(witness_block.provider)
      [] OTHER -> Faulty(witness_block)

\* Lines 122-137: the entry pushed for a witness whose hash differs.
Classify(result, verified, witness_block) ==
    CASE result = "ok" -> Forked(verified, witness_block)
      [] result = "expired" -> Forked(verified, witness_block)
      [] result = "timeout" -> Timeout(witness_block.provider)
      [] OTHER -> Faulty(witness_block)

\* Lines 105-108.
HashesMatch(primary_hash, witness_hash) == primary_hash = witness_hash

\* The witnesses the loop gets to line 110 with: their block was fetched, as
\* were the blocks of the witnesses before them, and its hash differs.
Checked(verified, ws, orc) ==
    {ws[i] : i \in {k \in 1..Len(ws) :
                       /\ \A j \in 1..k : orc[ws[j]].fetch # "timeout"
                       /\ ~HashesMatch(verified.hash, orc[ws[k]].fetch)}}

\* Line 97 makes a new State for each witness: the store its
\* verify_to_target(verified.height) starts on (line 118).
ScratchStores(verified, trusted, ws, orc) ==
    [w \in Checked(verified, ws, orc) |->
        ScratchStore(trusted, Block(verified.height, orc[w].fetch, w))]

\* A fork detector that verifies on the witnesses' own states.
StoresAfterDetectionOnWitness(st, scr) ==
    [p \in DOMAIN st |-> IF p \in DOMAIN scr THEN scr[p] ELSE st[p]]

\* The Instances' stores after the fork detector ran with the scratch stores
\* scr: line 97 gives every verification a State of its own, and the
\* witnesses are borrowed unchanged (witnesses: Vec<&Instance>, line 90).
StoresAfterDetection(st, scr) == st

\* Lines 96-138: the loop over the witnesses.  err is TRUE when a fetch failed
\* and the `?` of line 101 left the function; forks is the list at that point.
RECURSIVE DetectLoop(_, _, _, _)
DetectLoop(verified, ws, orc, acc) ==
    IF ws = <<>> THEN [err |-> FALSE, forks |-> acc]
    ELSE LET w == Head(ws)
             o == orc[w]
             witness_block == Block(verified.height, o.fetch, w)
         IN  IF o.fetch = "timeout" THEN [err |-> TRUE, forks |-> acc]
             ELSE IF HashesMatch(verified.hash, witness_block.hash)
             THEN DetectLoop(verified, Tail(ws), orc, acc)
             ELSE DetectLoop(verified, Tail(ws), orc,
                             Append(acc, Classify(o.verify, verified, witness_block)))

\* Lines 140-144.
IsDetected(fs) == fs # <<>>

detect_forks(verified, trusted, ws, orc) ==
    LET r == DetectLoop(verified, ws, orc, <<>>)
    IN  IF r.err THEN [tag |-> "Io", forks |-> <<>>]
        ELSE IF IsDetected(r.forks) THEN [tag |-> "Detected", forks |-> r.forks]
        ELSE [tag |-> "NotDetected", forks |-> <<>>]

----------------------------------------------------------------------------
\* EvidenceReporter (evidence.rs).

build_conflicting_headers_evidence(sh1, sh2) ==
    [kind |-> "ConflictingHeaders", sh1 |-> sh1, sh2 |-> sh2]

\* The signed header of a light block: what the evidence is built from.
signed_header(lb) == [height |-> lb.height, hash |-> lb.hash]

----------------------------------------------------------------------------
\* Initial state: the Supervisor as constructed, every instance holding the
\* initial trusted block at height 1, no request sent yet.

NoRequest == [id |-> 0, kind |-> "None", height |-> 0, client |-> "none"]

NoDetection == [tag |-> "None", block |-> NoBlock, witnesses |-> <<>>,
                full_nodes |-> <<>>]

IdleClient == [target |-> 0, high |-> 0]

NoVerdict == Err("None")

NoOracle == <<>>

NoScratch == <<>>

\* No Id formatted or parsed yet.
NotParsed == [tag |-> "None", id |-> <<>>]

NoAccount == [id |-> <<>>, text |-> <<>>, edits |-> 0, parsed |-> NotParsed]

NoOp == [name |-> "none", block |-> NoBlock, status |-> "none", step |-> 0,
         before |-> EmptyStore]

Init ==
    /\ peers = [primary |-> "p1", witnesses |-> <<"p2", "p3">>,
                full_nodes |-> <<"p4">>, faulty_nodes |-> {}]
    /\ store = [p \in Peers |-> Insert(EmptyStore, Block(1, "A", p), "Trusted")]
    /\ trace = [p \in Peers |-> EmptyTrace]
    /\ queue = <<>>
    /\ replies = [c \in Clients |-> <<>>]
    /\ results = [c \in Clients |-> "None"]
    /\ waiting = [c \in Clients |-> 0]
    /\ nextId = 1
    /\ pc = "recv"
    /\ req = NoRequest
    /\ lc = IdleClient
    /\ verdict = NoVerdict
    /\ verified_block = NoBlock
    /\ forks = <<>>
    /\ forked = <<>>
    /\ detection = NoDetection
    /\ reports = <<>>
    /\ started = 0
    /\ oracle = NoOracle
    /\ scratch = NoScratch
    /\ op = NoOp
    /\ accepted = {}
    /\ account = NoAccount

requestVars == <<req, lc, verdict, verified_block, forks, forked, detection,
                 reports, oracle, scratch, op, accepted, account>>

----------------------------------------------------------------------------
\* SupervisorHandle: each call sends an event carrying a fresh reply channel
\* and blocks on that channel.

Connected == pc # "stopped"

\* The Handles are interchangeable: the first call is taken to be h1's.
SendEvent(c, kind, h) ==
    /\ waiting[c] = 0
    /\ nextId = 1 => c = "h1"
    /\ nextId <= MaxRequests
    /\ Connected
    /\ queue' = Append(queue, [id |-> nextId, kind |-> kind, height |-> h, client |-> c])
    /\ waiting' = [waiting EXCEPT ![c] = nextId]
    /\ results' = [results EXCEPT ![c] = "None"]
    /\ nextId' = nextId + 1
    /\ UNCHANGED <<peers, store, trace, replies, pc, started>>
    /\ UNCHANGED requestVars

HandleVerifyToTarget(c, h) == SendEvent(c, "VerifyToTarget", h)

HandleVerifyToHighest(c) == SendEvent(c, "VerifyToHighest", 0)

HandleLatestTrusted(c) == SendEvent(c, "LatestTrusted", 0)

HandleTerminate(c) == SendEvent(c, "Terminate", 0)

\* self.sender.send fails once the Supervisor's receiver is gone.
HandleSendFails(c) ==
    /\ waiting[c] = 0
    /\ nextId <= MaxRequests
    /\ ~Connected
    /\ results' = [results EXCEPT ![c] = "ChannelDisconnected"]
    /\ nextId' = nextId + 1
    /\ UNCHANGED <<peers, store, trace, queue, replies, waiting, pc, started>>
    /\ UNCHANGED requestVars

\* receiver.recv() returns the reply.
HandleRecv(c) ==
    /\ waiting[c] # 0
    /\ replies[c] # <<>>
    /\ results' = [results EXCEPT ![c] = "Reply"]
    /\ replies' = [replies EXCEPT ![c] = Tail(@)]
    /\ waiting' = [waiting EXCEPT ![c] = 0]
    /\ UNCHANGED <<peers, store, trace, queue, nextId, pc, started>>
    /\ UNCHANGED requestVars

\* receiver.recv() fails: the reply sender was dropped without a reply.
HandleRecvFails(c) ==
    /\ waiting[c] # 0
    /\ replies[c] = <<>>
    /\ ~Connected
    /\ \A i \in 1..Len(queue) : queue[i].client # c
    /\ results' = [results EXCEPT ![c] = "ChannelDisconnected"]
    /\ waiting' = [waiting EXCEPT ![c] = 0]
    /\ UNCHANGED <<peers, store, trace, queue, replies, nextId, pc, started>>
    /\ UNCHANGED requestVars

----------------------------------------------------------------------------
\* Supervisor::run: take the next event off the queue (lines 321-344).

\* A loop that takes up the event sent last.
LastEvent(q) == q[Len(q)]

\* receiver.recv(): the event the loop takes up next.
NextEvent(q) == Head(q)

\* A loop that takes an event up while a request is in hand.
TakeAnytime(kind) == pc # "stopped" /\ queue # <<>> /\ NextEvent(queue).kind = kind

Take(kind) == pc = "recv" /\ queue # <<>> /\ NextEvent(queue).kind = kind

Taken(q) == RemoveFrom(q, NextEvent(q))

LatestReply(lb) == [tag |-> "Latest", block |-> lb, peers |-> <<>>]

Terminated == [tag |-> "Terminated", block |-> NoBlock, peers |-> <<>>]

\* Lines 326-329.
RunLatestTrusted ==
    /\ Take("LatestTrusted")
    /\ replies' = [replies EXCEPT ![NextEvent(queue).client] =
                      Append(@, LatestReply(latest_trusted(store[peers.primary])))]
    /\ queue' = Taken(queue)
    /\ started' = NextEvent(queue).id
    /\ UNCHANGED <<peers, store, trace, results, waiting, nextId, pc>>
    /\ UNCHANGED requestVars

\* Lines 330-333: return Ok(()) drops the Supervisor and its receiver.  The
\* Handles still hold Senders of the channel: whether the events still queued,
\* and the reply senders in them, are dropped with the receiver or stay in the
\* channel until the last Sender is gone is up to the channel.
RunTerminate ==
    /\ Take("Terminate")
    /\ replies' = [replies EXCEPT ![NextEvent(queue).client] = Append(@, Terminated)]
    /\ \E dropped \in BOOLEAN : queue' = IF dropped THEN <<>> ELSE Taken(queue)
    /\ started' = NextEvent(queue).id
    /\ pc' = "stopped"
    /\ UNCHANGED <<peers, store, trace, results, waiting, nextId>>
    /\ UNCHANGED requestVars

\* Lines 334-341, up to the call of verify.
RunVerify(kind) ==
    /\ Take(kind)
    /\ req' = NextEvent(queue)
    /\ queue' = Taken(queue)
    /\ started' = NextEvent(queue).id
    /\ pc' = "verify"
    /\ UNCHANGED <<peers, store, trace, replies, results, waiting, nextId>>
    /\ UNCHANGED <<lc, verdict, verified_block, forks, forked, detection, reports,
                   oracle, scratch, op, accepted, account>>

RunVerifyToTarget == RunVerify("VerifyToTarget")

RunVerifyToHighest == RunVerify("VerifyToHighest")

\* Lines 336 and 340: verify returned; sender.send(outcome) and back to recv.
Return(result) ==
    /\ replies' = [replies EXCEPT ![req.client] = Append(@, result)]
    /\ pc' = "recv"
    /\ req' = NoRequest
    /\ lc' = IdleClient
    /\ verdict' = NoVerdict
    /\ verified_block' = NoBlock
    /\ forks' = <<>>
    /\ forked' = <<>>
    /\ detection' = NoDetection
    /\ reports' = <<>>
    /\ accepted' = {}

----------------------------------------------------------------------------
\* Supervisor::verify (lines 192-247).

\* What no step of verify touches.
verifyFrame == <<queue, results, waiting, nextId, started, oracle, scratch, op,
                 account>>

\* What the primary's verification leaves alone.
clientFrame == <<peers, replies, req, verified_block, forks, forked, detection,
                 reports, accepted>>

\* verify_to_target (or verify_to_highest) returns v (lines 196-201).
Verdict(v) ==
    /\ verdict' = v
    /\ pc' = "verdict"
    /\ lc' = IdleClient
    /\ UNCHANGED clientFrame

\* LightClient::verify_to_target up to its loop.
EnterVerify(target) ==
    LET e == VerifyEntry(store[peers.primary], target)
    IN  IF e.tag = "Loop"
        THEN /\ lc' = [target |-> target, high |-> target]
             /\ UNCHANGED <<pc, verdict>>
             /\ UNCHANGED clientFrame
        ELSE Verdict(e)

\* Lines 198-200 and the verify_to_target they call, up to its loop.
SupVerifyToTarget ==
    /\ pc = "verify"
    /\ lc = IdleClient
    /\ req.kind = "VerifyToTarget"
    /\ EnterVerify(req.height)
    /\ UNCHANGED <<store, trace>>
    /\ UNCHANGED verifyFrame

\* Line 197: verify_to_highest fetches the primary's latest block first; the
\* fetch times out (0) or tells the height to verify to.
SupVerifyToHighest ==
    /\ pc = "verify"
    /\ lc = IdleClient
    /\ req.kind = "VerifyToHighest"
    /\ \E latest \in {0, MaxHeight} :
          IF latest = 0 THEN Verdict(Err("Io")) ELSE EnterVerify(latest)
    /\ UNCHANGED <<store, trace>>
    /\ UNCHANGED verifyFrame

\* The loop of verify_to_target on the primary's state.
LCState == store[peers.primary]

LCCurrent == LatestVerifiedOrTrusted(LCState, lc.target)

LCCached == Cached(LCState, lc.high)

\* get_or_fetch_block(lc.high) when it succeeds: the block and the store after.
LCBlock == IF LCCached # NoBlock THEN LCCached ELSE Block(lc.high, "A", peers.primary)

LCFetched == IF LCCached # NoBlock THEN LCState ELSE Insert(LCState, LCBlock, "Unverified")

InLoop == pc = "verify" /\ lc # IdleClient /\ LCCurrent.height < lc.target

\* The target is Verified: return it.
LCReturn ==
    /\ pc = "verify"
    /\ lc # IdleClient
    /\ LCCurrent.height = lc.target
    /\ store' = [store EXCEPT ![peers.primary] = Update(@, LCCurrent, "Verified")]
    /\ Verdict(Ok(LCCurrent))
    /\ UNCHANGED trace
    /\ UNCHANGED verifyFrame

\* The fetch from the primary fails (an I/O timeout).
LCFetchFails ==
    /\ InLoop
    /\ LCCached = NoBlock
    /\ Verdict(Err("Io"))
    /\ UNCHANGED <<store, trace>>
    /\ UNCHANGED verifyFrame

\* The predicates pass: the block is Verified and traced.
LCSuccess ==
    /\ InLoop
    /\ store' = [store EXCEPT ![peers.primary] = Update(LCFetched, LCBlock, "Verified")]
    /\ trace' = [trace EXCEPT ![peers.primary] = trace_block(@, lc.target, lc.high)]
    /\ lc' = [lc EXCEPT !.high = lc.target]
    /\ accepted' = accepted \cup {LCBlock}
    /\ UNCHANGED <<pc, verdict>>
    /\ UNCHANGED <<peers, replies, req, verified_block, forks, forked, detection,
                   reports>>
    /\ UNCHANGED verifyFrame

\* Not enough trust to skip to lc.high: bisect.
LCNotEnoughTrust ==
    /\ InLoop
    /\ lc.high > LCCurrent.height + 1
    /\ store' = [store EXCEPT ![peers.primary] = LCFetched]
    /\ lc' = [lc EXCEPT !.high = Schedule(LCCurrent.height, lc.high)]
    /\ UNCHANGED <<trace, pc, verdict>>
    /\ UNCHANGED clientFrame
    /\ UNCHANGED verifyFrame

\* Any other predicate failure: the block is Failed and the error returned.
LCFailure ==
    /\ InLoop
    /\ store' = [store EXCEPT ![peers.primary] = Update(LCFetched, LCBlock, "Failed")]
    /\ \E kind \in PredicateErrors : Verdict(Err(kind))
    /\ UNCHANGED trace
    /\ UNCHANGED verifyFrame

\* A verify that runs again with the primary that failed.
OnVerificationFailedKeepsPrimary(pl) == [ok |-> TRUE, peers |-> pl]

\* Line 243: the primary's verification failed, replace the primary.
OnVerificationFailed(pl) == replace_faulty_primary(pl)

\* Lines 203-211 and 238-246: match verdict.  Ok goes on to fork detection.
\* Err swaps the primary and verifies again, or fails with the error of
\* replace_faulty_primary.  An instance in faulty_nodes is never handed out
\* again by primary() or witnesses_ids(), so the model does not keep its state.
SupVerdict ==
    /\ pc = "verdict"
    /\ IF verdict.tag = "Ok"
       THEN /\ verified_block' = verdict.block
            /\ pc' = "detect"
            /\ verdict' = NoVerdict
            /\ UNCHANGED <<peers, store, trace, replies, req, lc, forks, forked,
                           detection, reports, accepted>>
       ELSE LET r == OnVerificationFailed(peers)
            IN  /\ peers' = r.peers
                /\ IF r.ok
                   THEN /\ pc' = "verify"
                        /\ verdict' = NoVerdict
                        /\ store' = [store EXCEPT ![peers.primary] =
                                        IF r.peers.primary # peers.primary
                                        THEN EmptyStore ELSE @]
                        /\ trace' = [trace EXCEPT ![peers.primary] =
                                        IF r.peers.primary # peers.primary
                                        THEN EmptyTrace ELSE @]
                        /\ UNCHANGED <<replies, req, lc, verified_block, forks,
                                       forked, detection, reports, accepted>>
                   ELSE /\ Return(Err("NoWitnesses"))
                        /\ UNCHANGED <<store, trace>>
    /\ UNCHANGED verifyFrame

----------------------------------------------------------------------------
\* Fork detection and what follows it (lines 205-236, 249-316).

\* One oracle per behaviour: a witness is asked in turn until one fetch fails,
\* and its verify result only when its hash differs.
Canonical(orc, ws, verified) ==
    \A i \in 1..Len(ws) :
        LET o == orc[ws[i]]
        IN  /\ (o.fetch = "timeout" \/ o.fetch = verified.hash) => o.verify = "ok"
            /\ (\E j \in 1..(i - 1) : orc[ws[j]].fetch = "timeout") => o.fetch = "timeout"

\* A detect_forks that goes to the fork detector with no witness at all.
NoWitnessesLeftNever(pl) == FALSE

\* Lines 303-305.
NoWitnessesLeft(pl) == pl.witnesses = <<>>

\* A verify that trusts the block whatever detect_forks returned.
AfterDetectionAlwaysTrust(tag) == "trust"

\* A verify that takes every result of detect_forks for a detection.
AfterDetectionAlwaysProcess(tag) == "process"

\* Lines 213-236: where verify goes with the Ok result of detect_forks.
AfterDetection(tag) == IF tag = "NotDetected" THEN "trust" ELSE "process"

\* Lines 206-211 and Supervisor::detect_forks.
SupDetectForks ==
    /\ pc = "detect"
    /\ LET trusted_block == latest_trusted(store[peers.primary])
       IN  IF trusted_block = NoBlock
           THEN Return(Err("NoTrustedState")) /\ UNCHANGED store
           ELSE IF NoWitnessesLeft(peers)
           THEN Return(Err("NoWitnesses")) /\ UNCHANGED store
           ELSE \E orc \in [Range(peers.witnesses) -> WitnessOracle] :
                /\ Canonical(orc, peers.witnesses, verified_block)
                /\ store' = StoresAfterDetection(store,
                                ScratchStores(verified_block, trusted_block,
                                              peers.witnesses, orc))
                /\ LET r == detect_forks(verified_block, trusted_block, peers.witnesses, orc)
                   IN  IF r.tag = "Io"
                       THEN Return(Err("Io"))
                       ELSE /\ detection' = [tag |-> r.tag, block |-> verified_block,
                                             witnesses |-> peers.witnesses,
                                             full_nodes |-> peers.full_nodes]
                            /\ forks' = r.forks
                            /\ pc' = AfterDetection(r.tag)
                            /\ UNCHANGED <<replies, req, lc, verdict, verified_block,
                                           forked, reports, accepted>>
    /\ UNCHANGED <<peers, trace>>
    /\ UNCHANGED verifyFrame

\* Lines 225-235: no fork, the verified block becomes Trusted and is returned.
SupTrustBlock ==
    /\ pc = "trust"
    /\ store' = [store EXCEPT ![peers.primary] = trust_block(@, verified_block)]
    /\ Return(Ok(verified_block))
    /\ UNCHANGED <<peers, trace>>
    /\ UNCHANGED verifyFrame

\* Lines 285-288: the evidence for one Forked entry.
EvidenceOf(fork) ==
    build_conflicting_headers_evidence(signed_header(fork.primary),
                                       signed_header(fork.witness))

\* Lines 290-294: an error of report becomes the Io error of the request.
ReportResult(io) == IF io = "ok" THEN "Ok" ELSE "Io"

NoProgress == [forked |-> <<>>, reports |-> <<>>]

\* A process_forks that records the forked peer without a report.
RecordedUnreported(acc, fork) ==
    [forked |-> Append(acc.forked, fork.provider), reports |-> acc.reports]

\* Lines 256-261: the evidence of a fork was reported; record the forked peer.
Reported(acc, fork) ==
    [forked |-> Append(acc.forked, fork.provider),
     reports |-> Append(acc.reports, [evidence |-> EvidenceOf(fork),
                                      peer |-> fork.provider])]

\* A process_forks that leaves the witness of a Timeout or Faulty entry where
\* it is.
OnFaultyWitnessKept(pl, fork) == pl

\* Lines 263-272: the witness of a Timeout or Faulty entry is removed from the
\* peer list.
OnFaultyWitness(pl, fork) == replace_faulty_witness(pl, fork.provider)

\* Lines 249-276: process_forks from entry i on.  io[i] is how the report for
\* entry i ends; an error leaves the function at once (the `?` of line 258).
RECURSIVE ProcessLoop(_, _, _, _, _)
ProcessLoop(fs, i, io, pl, acc) ==
    IF i > Len(fs)
    THEN [tag |-> "Ok", peers |-> pl, forked |-> acc.forked, reports |-> acc.reports]
    ELSE IF fs[i].kind = "Forked"
    THEN IF ReportResult(io[i]) = "Ok"
         THEN ProcessLoop(fs, i + 1, io, pl, Reported(acc, fs[i]))
         ELSE [tag |-> ReportResult(io[i]), peers |-> pl, forked |-> acc.forked,
               reports |-> acc.reports]
    ELSE ProcessLoop(fs, i + 1, io, OnFaultyWitness(pl, fs[i]), acc)

process_forks(fs, io, pl) == ProcessLoop(fs, 1, io, pl, NoProgress)

\* One oracle per behaviour: a report is only made for a Forked entry, and
\* none after the first that failed.
CanonicalReports(fs, io) ==
    \A i \in 1..Len(fs) :
        (fs[i].kind # "Forked" \/ \E j \in 1..(i - 1) : io[j] = "err") => io[i] = "ok"

\* Line 216: process_forks, with its calls of report_evidence and
\* replace_faulty_witness.
SupProcessForks ==
    /\ pc = "process"
    /\ \E io \in [1..Len(forks) -> {"ok", "err"}] :
          /\ CanonicalReports(forks, io)
          /\ LET r == process_forks(forks, io, peers)
             IN  /\ peers' = r.peers
                 /\ IF r.tag = "Ok"
                    THEN /\ forked' = r.forked
                         /\ reports' = r.reports
                         /\ forks' = <<>>
                         /\ pc' = "processed"
                         /\ UNCHANGED <<replies, req, lc, verdict, verified_block,
                                        detection, accepted>>
                    ELSE Return(Err(r.tag))
    /\ UNCHANGED <<store, trace>>
    /\ UNCHANGED verifyFrame

\* Lines 216-223: whether process_forks found a fork.
IsForked(ids) == ids # <<>>

\* Lines 217-223: with forked peers the request fails ForkDetected, else
\* verify runs again.
SupForksProcessed ==
    /\ pc = "processed"
    /\ IF IsForked(forked)
       THEN Return(ForkDetected(forked))
       ELSE /\ pc' = "verify"
            /\ UNCHANGED <<replies, req, lc, verdict, verified_block, forks, forked,
                           reports, detection, accepted>>
    /\ UNCHANGED <<peers, store, trace>>
    /\ UNCHANGED verifyFrame

----------------------------------------------------------------------------

HandleNext ==
    \E c \in Clients :
        \/ \E h \in Heights : HandleVerifyToTarget(c, h)
        \/ HandleVerifyToHighest(c)
        \/ HandleLatestTrusted(c)
        \/ HandleTerminate(c)
        \/ HandleSendFails(c)
        \/ HandleRecv(c)
        \/ HandleRecvFails(c)

SupervisorNext ==
    \/ RunLatestTrusted
    \/ RunTerminate
    \/ RunVerifyToTarget
    \/ RunVerifyToHighest
    \/ SupVerifyToTarget
    \/ SupVerifyToHighest
    \/ LCReturn
    \/ LCFetchFails
    \/ LCSuccess
    \/ LCNotEnoughTrust
    \/ LCFailure
    \/ SupVerdict
    \/ SupDetectForks
    \/ SupTrustBlock
    \/ SupProcessForks
    \/ SupForksProcessed

Next == HandleNext \/ SupervisorNext

Spec == Init /\ [][Next]_vars

\* The Supervisor thread keeps running while it has a step to take, and a
\* Handle whose reply has arrived returns.
FairSpec == Spec /\ WF_vars(SupervisorNext) /\ WF_vars(\E c \in Clients : HandleRecv(c))

----------------------------------------------------------------------------
\* ProdForkDetector::detect_forks on its own: every verified block and witness
\* list, every behaviour of the witnesses.

WitnessLists ==
    {ws \in UNION {[1..n -> Peers \ {"p1"}] : n \in 0..3} :
        \A i, j \in 1..Len(ws) : i # j => ws[i] # ws[j]}

DetectInit ==
    /\ \E ws \in WitnessLists :
          peers = [primary |-> "p1", witnesses |-> ws, full_nodes |-> <<>>,
                   faulty_nodes |-> {}]
    /\ \E h \in Heights, x \in Hashes :
          /\ h = 1 => x = "A"
          /\ verified_block = Block(h, x, "p1")
          /\ store = [p \in Peers |->
                        IF p = "p1" /\ h > 1
                        THEN Insert(Insert(EmptyStore, Block(1, "A", p), "Trusted"),
                                    Block(h, x, p), "Verified")
                        ELSE Insert(EmptyStore, Block(1, "A", p), "Trusted")]
    /\ trace = [p \in Peers |-> EmptyTrace]
    /\ queue = <<>>
    /\ replies = [c \in Clients |-> <<>>]
    /\ results = [c \in Clients |-> "None"]
    /\ waiting = [c \in Clients |-> 0]
    /\ nextId = 1
    /\ pc = "detect"
    /\ req = NoRequest
    /\ lc = IdleClient
    /\ verdict = NoVerdict
    /\ forks = <<>>
    /\ forked = <<>>
    /\ detection = NoDetection
    /\ reports = <<>>
    /\ started = 0
    /\ oracle = NoOracle
    /\ scratch = NoScratch
    /\ op = NoOp
    /\ accepted = {}
    /\ account = NoAccount

\* fork_detector.detect_forks(verified_block, trusted_block, witnesses), with
\* what the witnesses did recorded next to what it returned.
DetectForks ==
    /\ pc = "detect"
    /\ \E orc \in [Range(peers.witnesses) -> WitnessOracle] :
          LET r == detect_forks(verified_block, latest_trusted(store[peers.primary]),
                                peers.witnesses, orc)
          IN  /\ oracle' = orc
              /\ scratch' = ScratchStores(verified_block,
                                          latest_trusted(store[peers.primary]),
                                          peers.witnesses, orc)
              /\ detection' = [tag |-> r.tag, block |-> verified_block,
                               witnesses |-> peers.witnesses,
                               full_nodes |-> peers.full_nodes]
              /\ forks' = r.forks
              /\ store' = StoresAfterDetection(store, scratch')
    /\ pc' = "detected"
    /\ UNCHANGED <<peers, trace, queue, replies, results, waiting, nextId,
                   req, lc, verdict, verified_block, forked, reports, started, op,
                   accepted, account>>

DetectNext == DetectForks

DetectSpec == DetectInit /\ [][DetectNext]_vars

----------------------------------------------------------------------------
\* The LightStore on its own (store/sled.rs): calls of insert, update and
\* remove on one store, update taken one database operation at a time as a
\* second handle on the same database sees it.

MaxOps == 3

\* Status::iter(): the order update goes through the statuses in.
StatusIter == <<"Unverified", "Verified", "Trusted", "Failed">>

StoreBlocks == {Block(h, x, "p1") : h \in Heights, x \in Hashes}

StoreInit ==
    /\ peers = [primary |-> "p1", witnesses |-> <<>>, full_nodes |-> <<>>,
                faulty_nodes |-> {}]
    /\ store = [p \in Peers |-> EmptyStore]
    /\ trace = [p \in Peers |-> EmptyTrace]
    /\ queue = <<>>
    /\ replies = [c \in Clients |-> <<>>]
    /\ results = [c \in Clients |-> "None"]
    /\ waiting = [c \in Clients |-> 0]
    /\ nextId = 1
    /\ pc = "store"
    /\ req = NoRequest
    /\ lc = IdleClient
    /\ verdict = NoVerdict
    /\ verified_block = NoBlock
    /\ forks = <<>>
    /\ forked = <<>>
    /\ detection = NoDetection
    /\ reports = <<>>
    /\ started = 0
    /\ oracle = NoOracle
    /\ scratch = NoScratch
    /\ op = NoOp
    /\ accepted = {}
    /\ account = NoAccount

storeFrame == <<peers, trace, queue, replies, results, waiting, pc, req, lc, verdict,
                verified_block, forks, forked, detection, reports, started, oracle,
                scratch, accepted, account>>

\* No call is in progress and another may be made.
StoreIdle == pc = "store" /\ op.step = 0 /\ nextId <= MaxOps

\* A call of name on (lb, s) starts on the store as it is.
Call(name, lb, s, step) ==
    [name |-> name, block |-> lb, status |-> s, step |-> step, before |-> store["p1"]]

\* SledStore::insert (lines 64-68).
StoreInsert(lb, s) ==
    /\ StoreIdle
    /\ store' = [store EXCEPT !["p1"] = Insert(@, lb, s)]
    /\ op' = Call("insert", lb, s, 0)
    /\ nextId' = nextId + 1
    /\ UNCHANGED storeFrame

\* SledStore::remove (lines 70-72).
StoreRemove(h, s) ==
    /\ StoreIdle
    /\ store' = [store EXCEPT !["p1"] = Remove(@, h, s)]
    /\ op' = Call("remove", [NoBlock EXCEPT !.height = h], s, 0)
    /\ nextId' = nextId + 1
    /\ UNCHANGED storeFrame

\* SledStore::update is called (lines 52-53).
StoreUpdateCall(lb, s) ==
    /\ StoreIdle
    /\ op' = Call("update", lb, s, 1)
    /\ nextId' = nextId + 1
    /\ UNCHANGED store
    /\ UNCHANGED storeFrame

\* An update that removes nothing.
ClearedNever(status, other) == FALSE

\* Line 56: whether update removes the height from the database of other.
Cleared(status, other) == status # other

\* Lines 55-59: one turn of the loop over Status::iter().
StoreUpdateRemove ==
    /\ pc = "store"
    /\ op.name = "update"
    /\ op.step \in 1..Len(StatusIter)
    /\ store' = [store EXCEPT !["p1"] =
                    IF Cleared(op.status, StatusIter[op.step])
                    THEN Remove(@, op.block.height, StatusIter[op.step])
                    ELSE @]
    /\ op' = [op EXCEPT !.step = @ + 1]
    /\ UNCHANGED nextId
    /\ UNCHANGED storeFrame

\* Line 61: the insert that ends update.
StoreUpdateInsert ==
    /\ pc = "store"
    /\ op.name = "update"
    /\ op.step = Len(StatusIter) + 1
    /\ store' = [store EXCEPT !["p1"] = Insert(@, op.block, op.status)]
    /\ op' = [op EXCEPT !.step = 0]
    /\ UNCHANGED nextId
    /\ UNCHANGED storeFrame

StoreNext ==
    \/ \E lb \in StoreBlocks, s \in Statuses : StoreInsert(lb, s)
    \/ \E h \in Heights, s \in Statuses : StoreRemove(h, s)
    \/ \E lb \in StoreBlocks, s \in Statuses : StoreUpdateCall(lb, s)
    \/ StoreUpdateRemove
    \/ StoreUpdateInsert

StoreSpec == StoreInit /\ [][StoreNext]_vars

----------------------------------------------------------------------------
\* account::Id (tendermint/src/account.rs): 20 bytes, written as hex text by
\* Display and read back by FromStr.  Text is a sequence of characters.

LENGTH == 20

\* The number of changes made to a text before it is parsed.
MaxEdits == 2

UpperDigits == <<"0", "1", "2", "3", "4", "5", "6", "7", "8", "9",
                 "A", "B", "C", "D", "E", "F">>

LowerDigits == <<"0", "1", "2", "3", "4", "5", "6", "7", "8", "9",
                 "a", "b", "c", "d", "e", "f">>

\* The value of the hex digit c in the given alphabet.
DigitValue(digits, c) == (CHOOSE k \in 1..16 : digits[k] = c) - 1

\* Display: every byte as two upper-case hex digits ({:02X}).
to_string(id) ==
    [k \in 1..(2 * Len(id)) |->
        LET byte == id[(k + 1) \div 2]
        IN  IF k % 2 = 1 THEN UpperDigits[(byte \div 16) + 1]
                         ELSE UpperDigits[(byte % 16) + 1]]

DecodeError == [ok |-> FALSE, bytes |-> <<>>]

\* hex decoding in one alphabet: an odd length or a character outside the
\* alphabet is an error.
hex_decode(digits, s) ==
    IF Len(s) % 2 # 0 \/ \E k \in 1..Len(s) : s[k] \notin Range(digits)
    THEN DecodeError
    ELSE [ok |-> TRUE,
          bytes |-> [i \in 1..(Len(s) \div 2) |->
                        16 * DigitValue(digits, s[2 * i - 1])
                           + DigitValue(digits, s[2 * i])]]

decode_upper(s) == hex_decode(UpperDigits, s)

decode(s) == hex_decode(LowerDigits, s)

\* A from_str that knows upper-case hex only.
DecodeUpperOnly(s) == decode_upper(s)

\* Lines 93-94: upper-case hex, or else lower-case hex.
DecodeEither(s) == IF decode_upper(s).ok THEN decode_upper(s) ELSE decode(s)

ParseError == [tag |-> "Parse", id |-> <<>>]

IdOk(bytes) == [tag |-> "Ok", id |-> bytes]

\* Lines 91-104.
from_str(s) ==
    LET r == DecodeEither(s)
    IN  IF ~r.ok THEN ParseError
        ELSE IF Len(r.bytes) # LENGTH THEN ParseError
        ELSE IdOk(r.bytes)

\* The Ids and the characters tried.
ByteSamples == {0, 9, 171, 255}

Ids ==
    {[i \in 1..LENGTH |-> IF i = 1 THEN a ELSE IF i = LENGTH THEN c ELSE b] :
        a \in ByteSamples, b \in {0, 171}, c \in ByteSamples}

CharSamples == {"0", "A", "a", "G"}

Positions == {1, 2, 2 * LENGTH}

to_lower(s) ==
    [k \in 1..Len(s) |->
        IF \E j \in 1..16 : UpperDigits[j] = s[k]
        THEN LowerDigits[DigitValue(UpperDigits, s[k]) + 1]
        ELSE s[k]]

AccountInit ==
    /\ peers = [primary |-> "p1", witnesses |-> <<>>, full_nodes |-> <<>>,
                faulty_nodes |-> {}]
    /\ store = [p \in Peers |-> EmptyStore]
    /\ trace = [p \in Peers |-> EmptyTrace]
    /\ queue = <<>>
    /\ replies = [c \in Clients |-> <<>>]
    /\ results = [c \in Clients |-> "None"]
    /\ waiting = [c \in Clients |-> 0]
    /\ nextId = 1
    /\ pc = "account"
    /\ req = NoRequest
    /\ lc = IdleClient
    /\ verdict = NoVerdict
    /\ verified_block = NoBlock
    /\ forks = <<>>
    /\ forked = <<>>
    /\ detection = NoDetection
    /\ reports = <<>>
    /\ started = 0
    /\ oracle = NoOracle
    /\ scratch = NoScratch
    /\ op = NoOp
    /\ accepted = {}
    /\ account = NoAccount

accountFrame == <<peers, store, trace, queue, replies, results, waiting, nextId, pc,
                  req, lc, verdict, verified_block, forks, forked, detection, reports,
                  started, oracle, scratch, op, accepted>>

\* The text a caller is still writing: not parsed yet.
Writing == pc = "account" /\ account.text # <<>> /\ account.parsed = NotParsed

\* id.to_string(): the Display form of an Id.
IdToString(id) ==
    /\ pc = "account"
    /\ account = NoAccount
    /\ account' = [account EXCEPT !.id = id, !.text = to_string(id)]
    /\ UNCHANGED accountFrame

\* The caller writes the text in lower case.
TextLower ==
    /\ Writing
    /\ account.edits = 0
    /\ account.text # to_lower(account.text)
    /\ account' = [account EXCEPT !.text = to_lower(@)]
    /\ UNCHANGED accountFrame

\* The caller changes one character.
TextEdit(k, c) ==
    /\ Writing
    /\ account.edits < MaxEdits
    /\ k <= Len(account.text)
    /\ account.text[k] # c
    /\ account' = [account EXCEPT !.text[k] = c, !.edits = @ + 1]
    /\ UNCHANGED accountFrame

\* The caller adds a character at the end.
TextPush(c) ==
    /\ Writing
    /\ account.edits < MaxEdits
    /\ account' = [account EXCEPT !.text = Append(@, c), !.edits = @ + 1]
    /\ UNCHANGED accountFrame

\* The caller leaves the last character out.
TextPop ==
    /\ Writing
    /\ account.edits < MaxEdits
    /\ account' = [account EXCEPT !.text = SubSeq(@, 1, Len(@) - 1), !.edits = @ + 1]
    /\ UNCHANGED accountFrame

\* Id::from_str(text).
FromStr ==
    /\ Writing
    /\ account' = [account EXCEPT !.parsed = from_str(account.text)]
    /\ UNCHANGED accountFrame

AccountNext ==
    \/ \E id \in Ids : IdToString(id)
    \/ TextLower
    \/ \E k \in Positions, c \in CharSamples : TextEdit(k, c)
    \/ \E c \in CharSamples : TextPush(c)
    \/ TextPop
    \/ FromStr

AccountSpec == AccountInit /\ [][AccountNext]_vars

----------------------------------------------------------------------------
\* Properties of Supervisor::verify.

\* This step ends the request in hand: verify returned and its outcome was sent.
Replied == pc \notin {"recv", "stopped"} /\ pc' = "recv"

\* The outcome sent by this step.
TheReply == replies'[req.client][Len(replies'[req.client])]

\* This step puts a block under Trusted at height h of p's store.
NewlyTrusted(p, h) ==
    /\ store'[p]["Trusted"][h] # NoBlock
    /\ store'[p]["Trusted"][h] # store[p]["Trusted"][h]

\* C1: a block becomes Trusted only in the primary's store, only in the step
\* that follows a fork detection of this request on that very block against
\* the witnesses as they are now, with the result NotDetected, and the request
\* then ends with Ok of that block: no request ending in ForkDetected or in an
\* error has marked a block Trusted.
C1_TrustOnlyAfterNotDetected ==
    [][\A p \in Peers, h \in Heights :
          NewlyTrusted(p, h) =>
              /\ p = peers.primary
              /\ pc = "trust"
              /\ detection.tag = "NotDetected"
              /\ detection.block = store'[p]["Trusted"][h]
              /\ detection.block = verified_block
              /\ detection.witnesses = peers.witnesses
              /\ peers.witnesses # <<>>
              /\ Replied
              /\ TheReply = Ok(detection.block)]_vars

C1_Witness ==
    \E c \in Clients :
        /\ replies[c] # <<>>
        /\ Head(replies[c]).tag = "Ok"
        /\ Head(replies[c]).block.height > 1
        /\ store[peers.primary]["Trusted"][Head(replies[c]).block.height]
              = Head(replies[c]).block

\* Fork detection of the request in hand produced a Forked entry.
ForkFound == pc = "process" /\ \E i \in 1..Len(forks) : forks[i].kind = "Forked"

\* C2: once fork detection has produced a Forked entry, the request does not
\* retry and ends with no other outcome than ForkDetected, also when the
\* report of the evidence fails.
C2_ForkAlwaysSurfaced ==
    [][/\ ForkFound =>
            \/ pc' = "process"
            \/ pc' = "processed" /\ IsForked(forked')
            \/ Replied /\ TheReply.tag = "ForkDetected"
       /\ (pc = "processed" /\ IsForked(forked)) =>
            \/ pc' = "processed"
            \/ Replied /\ TheReply.tag = "ForkDetected"]_vars

\* C3: when ForkDetected(providers) is sent, a report of evidence to every
\* provider in the list was completed in an earlier step of the request.
C3_EvidenceBeforeForkDetected ==
    [][(Replied /\ TheReply.tag = "ForkDetected") =>
          /\ TheReply.peers # <<>>
          /\ Len(reports) = Len(TheReply.peers)
          /\ \A i \in 1..Len(TheReply.peers) :
                reports[i].peer = TheReply.peers[i]]_vars

C3_Witness ==
    \E c \in Clients :
        /\ replies[c] # <<>>
        /\ Head(replies[c]).tag = "ForkDetected"
        /\ Len(Head(replies[c]).peers) = 2

\* The Forked entries of a detection, in the order of the witnesses.
ForkedEntries(fs) == SelectSeq(fs, LAMBDA f : f.kind = "Forked")

\* C4: when detection produced Forked entries, the request ends with
\* ForkDetected listing exactly their providers in witness order, after exactly
\* one report per entry, each with the ConflictingHeaders evidence of the
\* primary's and that witness's signed header at the verified height and
\* addressed to that witness.
C4_OneReportPerFork ==
    [][/\ (ForkFound /\ pc' # "process") =>
            LET fe == ForkedEntries(forks)
            IN  /\ pc' = "processed"
                /\ forked' = [i \in 1..Len(fe) |-> fe[i].provider]
                /\ reports' =
                     [i \in 1..Len(fe) |->
                        [evidence |->
                            build_conflicting_headers_evidence(
                                signed_header(verified_block),
                                signed_header(fe[i].witness)),
                         peer |-> fe[i].provider]]
       /\ (pc = "processed" /\ IsForked(forked) /\ pc' # "processed") =>
            /\ Replied
            /\ TheReply = ForkDetected(forked)]_vars

\* C5: a witness whose fetch times out during fork detection never makes the
\* request end with an I/O error: fork detection ends a request only for want
\* of a trusted state or of witnesses.
C5_WitnessTimeoutNeverIo ==
    [][(pc = "detect" /\ Replied) => TheReply.tag # "Io"]_vars

\* C6: the outcome of a verification request is Ok with a block, ForkDetected,
\* NoPrimary or NoWitnesses, and no other error.
C6_TerminalOutcomes ==
    [][Replied => TheReply.tag \in {"Ok", "ForkDetected", "NoPrimary", "NoWitnesses"}]_vars

\* The Supervisor is between taking a request up and replying to it.
Busy == pc \notin {"recv", "stopped"}

\* C7: the Supervisor takes requests up in the order they were sent and one at
\* a time: when it takes one up, every request taken up before has its reply
\* sent, a reply goes to the reply channel of the request in hand only, and no
\* channel ever holds a second reply.
C7_FifoOneAtATime ==
    /\ [](\A c \in Clients :
            /\ Len(replies[c]) <= 1
            /\ replies[c] # <<>> =>
                  /\ waiting[c] \in 1..started
                  /\ Busy => waiting[c] < started)
    /\ [](Busy => /\ req.id = started
                  /\ waiting[req.client] = started
                  /\ replies[req.client] = <<>>)
    /\ [][/\ started' # started =>
               /\ pc = "recv"
               /\ queue # <<>>
               /\ started' = queue[1].id
               /\ \A i \in 1..Len(queue) : queue[i].id >= started'
               /\ started' > started
               /\ \A c \in Clients :
                     waiting[c] \in 1..started => replies[c] # <<>>
          /\ \A c \in Clients :
               Len(replies'[c]) > Len(replies[c]) =>
                  /\ waiting[c] = started'
                  /\ Len(replies'[c]) = 1]_vars

C7_Witness ==
    /\ started = 2
    /\ Busy
    /\ \E c \in Clients : waiting[c] = 1 /\ replies[c] # <<>>

\* The peers a retry can still turn to.
PeersLeft(w, f) == Len(w) + Len(f)

\* C8: a request taken up is replied to, given that the Supervisor keeps
\* running: verify runs again only with a primary or a witness moved to the
\* faulty set, so with fewer witnesses and full nodes left than the attempt
\* before had.
C8_VerifyTerminates ==
    /\ (Busy ~> pc = "recv")
    /\ [][/\ (pc = "verdict" /\ pc' = "verify") =>
               PeersLeft(peers'.witnesses, peers'.full_nodes)
                  < PeersLeft(peers.witnesses, peers.full_nodes)
          /\ (pc = "processed" /\ pc' = "verify") =>
               /\ peers' = peers
               /\ PeersLeft(peers.witnesses, peers.full_nodes)
                     < PeersLeft(detection.witnesses, detection.full_nodes)
          /\ pc' = "verify" => pc \in {"recv", "verify", "verdict", "processed"}]_vars

C8_Witness ==
    /\ pc = "verify"
    /\ detection.tag = "Detected"
    /\ peers.primary # "p1"

\* The primary's verification has returned an error.
PrimaryFailed == pc = "verdict" /\ verdict.tag # "Ok"

\* C9: on an error of the primary's verification the primary goes to the
\* faulty set, the first witness becomes primary and the same request is
\* verified again; with no witness the request fails NoWitnesses.  No peer of
\* the faulty set is primary or witness.
C9_PrimaryReplaced ==
    /\ [][(PrimaryFailed /\ pc' # "verdict") =>
             IF peers.witnesses # <<>>
             THEN /\ peers'.primary = Head(peers.witnesses)
                  /\ peers'.witnesses = Tail(peers.witnesses)
                  /\ peers'.full_nodes = peers.full_nodes
                  /\ peers'.faulty_nodes = peers.faulty_nodes \cup {peers.primary}
                  /\ pc' = "verify"
                  /\ req' = req
                  /\ replies' = replies
             ELSE /\ Replied
                  /\ TheReply = Err("NoWitnesses")]_vars
    /\ [](peers.faulty_nodes \cap ({peers.primary} \cup Range(peers.witnesses)) = {})

C9_Witness ==
    /\ pc = "verify"
    /\ req.id # 0
    /\ peers.primary = "p2"
    /\ "p1" \in peers.faulty_nodes

\* Witness i was asked for its block: no witness before it failed to answer.
Asked(i) == \A j \in 1..(i - 1) : oracle[detection.witnesses[j]].fetch # "timeout"

\* C10: detect_forks yields NotDetected when every witness returns a block with
\* the hash of the verified block; it yields Detected with a Forked entry for
\* every witness that returns a block with another hash which verifies; and it
\* yields Detected exactly when it has produced an entry.
C10_ForkDetectorAgreement ==
    pc = "detected" =>
        LET ws == detection.witnesses
            v == detection.block
        IN  /\ (\A i \in 1..Len(ws) : oracle[ws[i]].fetch = v.hash)
                  => detection.tag = "NotDetected"
            /\ \A i \in 1..Len(ws) :
                  (/\ Asked(i)
                   /\ oracle[ws[i]].fetch \in Hashes \ {v.hash}
                   /\ oracle[ws[i]].verify = "ok")
                  => /\ detection.tag = "Detected"
                     /\ \E k \in 1..Len(forks) :
                           forks[k] = Forked(v, Block(v.height, oracle[ws[i]].fetch, ws[i]))
            /\ detection.tag = "Detected" <=> forks # <<>>

\* The entries the loop of detect_forks pushed for the recorded call.
Pushed == DetectLoop(detection.block, detection.witnesses, oracle, <<>>).forks

\* The witnesses of the recorded call that served a block with another hash
\* than the verified block's, by their place in the list, in order.
Disagreeing ==
    SelectSeq([i \in 1..Len(detection.witnesses) |-> i],
              LAMBDA i : /\ Asked(i)
                         /\ oracle[detection.witnesses[i]].fetch
                               \in Hashes \ {detection.block.hash})

\* C11: detect_forks pushes exactly one entry per witness whose block differs
\* in hash, in witness order, and none for a witness that agrees: Forked when
\* the witness's verify_to_target succeeds or fails with expiry, Timeout of the
\* witness when it fails with a timeout, Faulty of the witness's block on any
\* other failure; these entries are what Detected carries.
C11_Classification ==
    pc = "detected" =>
        /\ Len(Pushed) = Len(Disagreeing)
        /\ \A k \in 1..Len(Disagreeing) :
              LET w == detection.witnesses[Disagreeing[k]]
                  b == Block(detection.block.height, oracle[w].fetch, w)
                  r == oracle[w].verify
              IN  /\ r \in {"ok", "expired"} => Pushed[k] = Forked(detection.block, b)
                  /\ r = "timeout" => Pushed[k] = Timeout(w)
                  /\ r = "invalid" => Pushed[k] = Faulty(b)
        /\ detection.tag # "Io" => forks = Pushed

C11_Witness ==
    /\ pc = "detected"
    /\ detection.tag = "Detected"
    /\ Len(detection.witnesses) = 3
    /\ Len(forks) = 2
    /\ forks[1].kind = "Forked"
    /\ oracle[forks[1].provider].verify = "expired"
    /\ forks[2].kind = "Timeout"

\* C12: the store a witness's verify_to_target runs on is new for that
\* witness, holds the trusted block under Trusted, so that its latest Trusted
\* block is the primary's trusted block, and besides that only the witness's
\* own block.
C12_ScratchSeededTrusted ==
    pc = "detected" =>
        \A w \in DOMAIN scratch :
            LET trusted == latest_trusted(store[peers.primary])
                b == Block(detection.block.height, oracle[w].fetch, w)
            IN  /\ Latest(scratch[w], "Trusted") = trusted
                /\ \A s \in Statuses, h \in Heights :
                      Get(scratch[w], h, s) \in {NoBlock, trusted, b}

----------------------------------------------------------------------------
\* Properties of the LightStore.

\* The statuses the store under the calls records a block under at height h.
StatusesAt(h) == {s \in Statuses : Get(store["p1"], h, s) # NoBlock}

\* A call of update has returned.
Updated == pc = "store" /\ op.name = "update" /\ op.step = 0

\* C13: when update(lb, s) returns, get(lb.height, s) is lb, get(lb.height, s')
\* is None for every other status s', whatever the store held at that height
\* before, and the blocks at the other heights are as they were before.
C13_UpdateExclusive ==
    Updated =>
        /\ Get(store["p1"], op.block.height, op.status) = op.block
        /\ \A s \in Statuses \ {op.status} :
              Get(store["p1"], op.block.height, s) = NoBlock
        /\ \A s \in Statuses, h \in Heights \ {op.block.height} :
              Get(store["p1"], h, s) = Get(op.before, h, s)
        /\ store["p1"] = Update(op.before, op.block, op.status)

C13_Witness ==
    /\ Updated
    /\ op.status = "Trusted"
    /\ Get(op.before, op.block.height, "Verified") # NoBlock
    /\ Get(op.before, op.block.height, "Unverified") # NoBlock

\* C14: between calls of insert, update and remove, the store records a block
\* under at most one status at each height.
C14_OneStatusPerHeight ==
    (pc = "store" /\ op.step = 0) =>
        \A h \in Heights : Cardinality(StatusesAt(h)) <= 1

\* C15: while update moves a block that the store records under one status,
\* the height is under exactly one status in every state another handle on
\* the database can read.
C15_UpdateAtomic ==
    (/\ pc = "store"
     /\ op.name = "update"
     /\ Cardinality({s \in Statuses : Get(op.before, op.block.height, s) # NoBlock}) = 1)
    => Cardinality(StatusesAt(op.block.height)) = 1

----------------------------------------------------------------------------
\* Properties of the Supervisor's trusted state and of its loop.

\* What Supervisor::latest_trusted reports.
Trusted == latest_trusted(store[peers.primary])

\* C16: a verify_to_target(h) that succeeds leaves the latest trusted block of
\* the primary at height h or above; over all requests, also those that
\* replace the primary, the height latest_trusted reports never decreases and
\* no block at or below it leaves status Trusted.
C16_TrustMonotone ==
    [][/\ (Replied /\ TheReply.tag = "Ok" /\ req.kind = "VerifyToTarget") =>
             latest_trusted(store'[peers'.primary]).height >= req.height
       /\ latest_trusted(store'[peers'.primary]).height >= Trusted.height
       /\ \A h \in 1..Trusted.height :
             Get(store[peers.primary], h, "Trusted") # NoBlock =>
                Get(store'[peers'.primary], h, "Trusted") # NoBlock]_vars

\* C17: whenever the trace of a target is read between requests, every height
\* recorded in it is at or below the target and is Verified in the store, so
\* that get_trace returns a block for each of them, also after the target was
\* promoted to Trusted.
C17_TraceVerified ==
    pc = "recv" =>
        \A t \in Heights :
            /\ \A h \in trace[peers.primary][t] :
                  /\ h <= t
                  /\ Get(store[peers.primary], h, "Verified") # NoBlock
            /\ get_trace(store[peers.primary], trace[peers.primary], t)
                  = trace[peers.primary][t]

\* C18: the Supervisor stops only by taking a Terminate request off the queue
\* while no request is in hand, with every request sent before it processed
\* and answered; it acknowledges the Terminate once, on its own channel, and
\* once stopped it takes up no request, sends no reply and changes no state.
C18_TerminateBetweenRequests ==
    /\ [][(pc # "stopped" /\ pc' = "stopped") =>
             /\ pc = "recv"
             /\ queue # <<>>
             /\ queue[1].kind = "Terminate"
             /\ \A i \in 1..Len(queue) : queue[i].id >= queue[1].id
             /\ started < queue[1].id
             /\ started' = queue[1].id
             /\ \A c \in Clients : waiting[c] \in 1..started => replies[c] # <<>>
             /\ replies' = [replies EXCEPT ![queue[1].client] = <<Terminated>>]]_vars
    /\ [][\A c \in Clients :
             (Len(replies'[c]) > Len(replies[c]) /\ replies'[c][Len(replies'[c])] = Terminated)
                => pc # "stopped" /\ pc' = "stopped"]_vars
    /\ [][pc = "stopped" =>
             /\ pc' = "stopped"
             /\ started' = started
             /\ \A c \in Clients : Len(replies'[c]) <= Len(replies[c])
             /\ UNCHANGED <<peers, store, trace, req>>]_vars

C18_Witness ==
    /\ pc = "stopped"
    /\ started = 2
    /\ \E c \in Clients : waiting[c] = 2 /\ replies[c] = <<Terminated>>
    /\ \E c \in Clients : results[c] = "Reply" /\ waiting[c] = 0

\* C19: once the Supervisor has stopped, no Handle call blocks for ever: a
\* call still waiting has its reply or fails with ChannelDisconnected, and a
\* call made afterwards fails with ChannelDisconnected.
C19_NoCallBlocksForever ==
    pc = "stopped" =>
        \A c \in Clients :
            /\ waiting[c] # 0 => (replies[c] # <<>> \/ ENABLED HandleRecvFails(c))
            /\ (waiting[c] = 0 /\ nextId <= MaxRequests) => ENABLED HandleSendFails(c)

\* The request in hand is a verify_to_target(h) whose block the primary
\* already trusts after an earlier verification to that height.
SecondCall ==
    /\ Busy
    /\ req.kind = "VerifyToTarget"
    /\ req.height > 1
    /\ Get(store[peers.primary], req.height, "Trusted") # NoBlock

\* This step asks the witnesses for their block (Supervisor::detect_forks gets
\* to the fork detector, whose loop starts with a fetch).
WitnessesAsked ==
    /\ pc = "detect"
    /\ pc' # "detect"
    /\ Trusted # NoBlock
    /\ ~NoWitnessesLeft(peers)

\* C20: a verify_to_target(h) made again after one that succeeded fetches
\* nothing from the witnesses and returns the block the first call returned.
C20_SecondCallIdempotent ==
    [][SecondCall =>
          /\ ~WitnessesAsked
          /\ Replied => TheReply = Ok(Get(store[peers.primary], req.height, "Trusted"))]_vars

\* This step ends the request in hand with an error.
RepliedError == Replied /\ TheReply.tag # "Ok"

\* C21: when a request ends with an error, every block that verification made
\* Verified while the request was served is Verified in the store of the
\* primary the next request starts with.
C21_PartialProgressKept ==
    [][RepliedError =>
          \A b \in accepted :
              Get(store'[peers'.primary], b.height, "Verified") = b]_vars

\* This step is process_forks, run on the entries in forks.
Processing == pc = "process" /\ pc' # "process"

\* The entries process_forks is sure to have handled when it leaves: all of
\* them when it returns Ok, those before the first Forked entry when a report
\* failed.
Handled ==
    {i \in 1..Len(forks) :
        \/ pc' = "processed"
        \/ \A j \in 1..i : forks[j].kind # "Forked"}

\* C22: process_forks moves the witness of every Timeout or Faulty entry it
\* handles to the faulty set and out of the witnesses, and keeps the witness
\* of every Forked entry, reported when process_forks returns Ok; the faulty
\* set never loses a peer, and no peer in it is a witness, so that no later
\* fork detection of this or of another request is given it.
C22_FaultyWitnessRemoved ==
    /\ [][Processing =>
             /\ \A i \in Handled :
                   forks[i].kind \in {"Timeout", "Faulty"} =>
                       /\ forks[i].provider \in peers'.faulty_nodes
                       /\ forks[i].provider \notin Range(peers'.witnesses)
             /\ \A i \in 1..Len(forks) :
                   forks[i].kind = "Forked" =>
                       /\ forks[i].provider \in Range(peers'.witnesses)
                       /\ forks[i].provider \notin peers'.faulty_nodes
                       /\ pc' = "processed" =>
                             \E k \in 1..Len(reports') :
                                 reports'[k].peer = forks[i].provider]_vars
    /\ [][peers.faulty_nodes \subseteq peers'.faulty_nodes]_vars
    /\ [][(pc = "detect" /\ pc' # "detect") =>
             Range(peers.witnesses) \cap peers.faulty_nodes = {}]_vars

\* Fork detection is reached again in the retry that follows the removal of a
\* witness.
C22_Witness ==
    /\ pc = "detect"
    /\ detection.tag = "Detected"
    /\ \E w \in Range(detection.witnesses) : w \in peers.faulty_nodes

HexChars == Range(UpperDigits) \cup Range(LowerDigits)

AllIn(s, chars) == \A k \in 1..Len(s) : s[k] \in chars

\* The text with its lower-case hex digits in upper case.
InUpper(s) ==
    [k \in 1..Len(s) |->
        IF \E j \in 1..16 : LowerDigits[j] = s[k]
        THEN UpperDigits[DigitValue(LowerDigits, s[k]) + 1]
        ELSE s[k]]

\* C23: the Display form of an Id is 40 upper-case hex characters and from_str
\* of it is the Id; from_str of 40 hex characters, all upper case or all lower
\* case, is the Id with these digits; from_str of a text with a character
\* that is no hex digit, or of a length other than 40, is the Parse error.
C23_IdTextRoundTrip ==
    /\ account.id # <<>> =>
          /\ Len(to_string(account.id)) = 2 * LENGTH
          /\ AllIn(to_string(account.id), Range(UpperDigits))
    /\ account.parsed # NotParsed =>
          /\ account.text = to_string(account.id) => account.parsed = IdOk(account.id)
          /\ (/\ Len(account.text) = 2 * LENGTH
              /\ \/ AllIn(account.text, Range(UpperDigits))
                 \/ AllIn(account.text, Range(LowerDigits))) =>
                /\ account.parsed.tag = "Ok"
                /\ Len(account.parsed.id) = LENGTH
                /\ to_string(account.parsed.id) = InUpper(account.text)
          /\ (~AllIn(account.text, HexChars) \/ Len(account.text) # 2 * LENGTH) =>
                account.parsed = ParseError

\* The Display form of an Id with letters among its digits was parsed back.
C23_Witness ==
    /\ account.parsed = IdOk(account.id)
    /\ account.text = to_string(account.id)
    /\ account.text # to_lower(account.text)

\* The errors only the primary's verification ends with.
VerificationErrors == PredicateErrors \cup {"TargetLowerThanTrustedState"}

\* C24: whatever the error of the primary's verification, the step that
\* handles it sends that error to nobody: with a witness left it puts the
\* primary in the faulty set and verifies the same request again with another
\* primary, with none left it answers NoWitnesses; no reply carries an error
\* that only the primary's verification ends with.
C24_VerificationErrorNotReturned ==
    /\ [][(PrimaryFailed /\ pc' # "verdict") =>
             /\ peers.witnesses # <<>> =>
                   /\ peers.primary \in peers'.faulty_nodes
                   /\ peers'.primary # peers.primary
                   /\ pc' = "verify"
                   /\ req' = req
                   /\ ~Replied
             /\ Replied => TheReply = Err("NoWitnesses")]_vars
    /\ [][Replied => TheReply.tag \notin VerificationErrors]_vars

\* The primary's verification ended with an error of the caller's making, and
\* there is a witness to take the primary's place.
C24_Witness ==
    /\ PrimaryFailed
    /\ verdict.tag = "TargetLowerThanTrustedState"
    /\ peers.witnesses # <<>>

\* Fork detection starts with no witness in the peer list.
DetectsAlone == pc = "detect" /\ peers.witnesses = <<>>

\* C25: when fork detection starts with an empty witness list, the request
\* ends there with NoWitnesses: the fork detector returns nothing to go on
\* with, the stores are as they were (the verified block is not made Trusted)
\* and the peer list is as it was (the primary stays).
C25_NoWitnessesFails ==
    [][(DetectsAlone /\ pc' # "detect") =>
          /\ Replied
          /\ TheReply = Err("NoWitnesses")
          /\ store' = store
          /\ trace' = trace
          /\ peers' = peers]_vars

\* The primary has verified a block that is not Trusted yet, and there is no
\* witness to check it against.
C25_Witness ==
    /\ DetectsAlone
    /\ verified_block # NoBlock
    /\ Get(store[peers.primary], verified_block.height, "Verified") = verified_block
    /\ Get(store[peers.primary], verified_block.height, "Trusted") = NoBlock

\* This step is Supervisor::detect_forks, whatever it returns.
Detecting == pc = "detect" /\ pc' # "detect"

\* The peer list, the stores or the traces are not after this step what they
\* were before it.
SupervisorStateChanges == <<peers, store, trace>>' # <<peers, store, trace>>

\* The stores and traces of all peers but p are left alone.
OnlyStateOf(p) ==
    \A q \in Peers \ {p} : store'[q] = store[q] /\ trace'[q] = trace[q]

\* This step is process_forks, and changes the peer list alone.
ByProcessForks == pc = "process" /\ store' = store /\ trace' = trace

\* This step is replace_faulty_primary: the primary failed and goes, with its
\* state, to the faulty set.
ByReplaceFaultyPrimary ==
    /\ PrimaryFailed
    /\ peers'.primary # peers.primary
    /\ OnlyStateOf(peers.primary)

\* This step is trust_block on the primary's store.
ByTrustBlock ==
    /\ pc = "trust"
    /\ peers' = peers
    /\ trace' = trace
    /\ store' = [store EXCEPT ![peers.primary] = trust_block(@, verified_block)]

\* This step is one of the primary's verification, on the primary's own state.
ByPrimaryVerification ==
    /\ pc = "verify"
    /\ peers' = peers
    /\ OnlyStateOf(peers.primary)

\* Supervisor::detect_forks leaves the peer list and every store and trace as
\* they were, whatever it returns.
DetectionFrame ==
    Detecting => (peers' = peers /\ store' = store /\ trace' = trace)

\* C26 as stated: detect_forks changes nothing of the peer list, the stores
\* and the traces, and a step that changes any of them is process_forks,
\* replace_faulty_primary or trust_block.
C26_OnlyThreeChangeState ==
    [][/\ DetectionFrame
       /\ SupervisorStateChanges =>
             (ByProcessForks \/ ByReplaceFaultyPrimary \/ ByTrustBlock)]_vars

\* C26, with the primary's verification among the steps that change state:
\* detect_forks changes nothing of the peer list, the stores and the traces,
\* and a step that changes any of them is the primary's verification on its
\* own store and trace, process_forks, replace_faulty_primary or trust_block.
C26_DetectionChangesNothing ==
    [][/\ DetectionFrame
       /\ SupervisorStateChanges =>
             \/ ByPrimaryVerification
             \/ ByProcessForks
             \/ ByReplaceFaultyPrimary
             \/ ByTrustBlock]_vars

\* Fork detection has run on a block that a witness contradicted, and the
\* block is still Verified, not Trusted, in the primary's store.
C26_Witness ==
    /\ pc = "process"
    /\ detection.tag = "Detected"
    /\ Get(store[peers.primary], verified_block.height, "Verified") = verified_block
    /\ \A w \in Range(detection.witnesses) :
          store[w] = Insert(EmptyStore, Block(1, "A", w), "Trusted")

====
